---- MODULE Spec2Model ----
(***************************************************************************)
(* Model of src/code/train.py: a GAN trained by several cooperating        *)
(* processes (one per rank).  Each process runs, per epoch, the training   *)
(* batches (training_step once per optimizer) and then the validation      *)
(* batches (validation_step followed by validation_step_end).  The         *)
(* processes share the two directories /tmp/gen_files and /tmp/src_files   *)
(* and synchronise only through ddp.barrier().                             *)
(*                                                                         *)
(* Every process is a sequential program; pc[p] is its position.  A step   *)
(* of the model is one statement (or one loop iteration) of one process,   *)
(* so that every interleaving of the file-system operations of different   *)
(* processes is explored.                                                  *)
(*                                                                         *)
(* The environment: both directories are one file system seen alike by     *)
(* every process (the processes of the run are on one node); they may or   *)
(* may not exist when the run starts.  The trainer is built at lines       *)
(* 289-295 with every argument it is not given left at its default: before *)
(* the first epoch it runs its sanity check (num_sanity_val_steps          *)
(* validation batches, with validation_step and validation_step_end);      *)
(* then, per epoch, it calls training_step for optimizer 0 then optimizer  *)
(* 1 of each batch, and after the training batches of the epoch calls      *)
(* validation_step and validation_step_end for each validation batch.      *)
(* The gradient synchronisation of the DDP strategy is not modelled: the   *)
(* processes run their training steps independently, which only adds       *)
(* interleavings.                                                          *)
(***************************************************************************)
EXTENDS Naturals, Sequences, FiniteSets

\* ---------------------------------------------------------------- bounds
MaxWorld == 2        \* WORLD_SIZE ranges over 1..MaxWorld
MaxEpochs == 1       \* epochs run by the trainer (stands for max_epochs=50)
NumTrainBatches == 1 \* training batches per epoch
NumValBatches == 2   \* validation batches per epoch
NumImages == 2       \* images per validation batch (len(sample_imgs), len(imgs))
MaxClock == 1        \* time.time() returns a value in 0..MaxClock
MaxEnv == 9          \* WORLD_SIZE ranges over 1..MaxEnv and SM_NUM_GPUS over 0..MaxEnv
                     \* at the start of the script

Ranks == 0 .. (MaxWorld - 1)

\* ---------------------------------------------------------------- constants of the program
gen_images_path == "/tmp/gen_files"
src_images_path == "/tmp/src_files"
Paths == {gen_images_path, src_images_path}

\* Trainer(...) at lines 289-295 does not pass num_sanity_val_steps: the trainer's
\* default is 2 validation batches before the first epoch
NumSanityValSteps == 2

VARIABLES
  world_size,     \* int(os.environ["WORLD_SIZE"]), fixed for the run
  num_gpus,       \* int(os.environ["SM_NUM_GPUS"])
  num_nodes,      \* num_nodes of line 284 (0 before it is assigned)
  main_pc,        \* position in the script: "main" before line 282, "fit" in trainer.fit
  sanity_checking,\* sanity_checking[p]: the trainer of p is in its sanity check
  validation_z,   \* validation_z[p]: the sample stored by __init__ (line 145)
  z,              \* z[p]: the sample the last training_step / validation_step used
  randn_calls,    \* randn_calls[p]: torch.randn calls p has made; call n returns sample n
  pc,             \* pc[p]: position of process p
  current_epoch,  \* current_epoch[p]
  batch_idx,      \* batch_idx[p]: index of the current training/validation batch
  optimizer_idx,  \* optimizer_idx[p]: the optimizer the trainer passes to training_step
  generator,      \* generator[p]: number of updates applied to the generator parameters
  discriminator,  \* discriminator[p]: number of updates applied to the discriminator parameters
  g_loss_disc,    \* g_loss_disc[p]: the discriminator version read by the last g_loss
  barriers,       \* barriers[p]: number of ddp.barrier() calls p has made
  img,            \* img[p]: images already saved by the running save loop
  score,          \* score[p]: the listings fid.compute_fid has read, until the score is printed
  files,          \* files[p]: the glob result still to be removed
  written,        \* written[d]: the file names written into d during the current epoch
  dir_exists,     \* dir_exists[d]: os.path.exists(d)
  dir_files,      \* dir_files[d]: the names of the files in d
  clock           \* the last value time.time() returned

vars == << world_size, num_gpus, num_nodes, main_pc, sanity_checking,
           validation_z, z, randn_calls, pc, current_epoch, batch_idx, optimizer_idx, generator,
           discriminator, g_loss_disc, barriers, img, score, files, written,
           dir_exists, dir_files, clock >>

Procs == { p \in Ranks : p < world_size }

\* ---------------------------------------------------------------- helpers

\* Variant of IsGlobalZero: the rank test is dropped, every process takes the
\* coordinator's branches
IsGlobalZero_EveryRank(p) == p >= 0

\* self.trainer.is_global_zero: the process whose RANK is 0
IsGlobalZero(p) == p = 0

\* training_step: "if optimizer_idx == 0" trains the generator,
\* "if optimizer_idx == 1" trains the discriminator
PhaseOf(idx) == IF idx = 0 THEN "generator" ELSE "discriminator"

\* Variant of ConfigureOptimizers: the two optimizers are returned in the other order
ConfigureOptimizers_Swapped == << "opt_d", "opt_g" >>

\* configure_optimizers: return [opt_g, opt_d], []
ConfigureOptimizers == << "opt_g", "opt_d" >>

\* Variant of OptimizerParams: both optimizers are built on the generator's parameters
OptimizerParams_Generator(opt) == "generator"

\* opt_g = Adam(self.generator.parameters()), opt_d = Adam(self.discriminator.parameters())
OptimizerParams(opt) == IF opt = "opt_g" THEN "generator" ELSE "discriminator"

\* "/gen_" + str(time.time()) + ".jpeg": the name is the prefix and the clock reading
FileName(prefix, t) == << prefix, t >>

\* save_image(img, name): creates the file, or replaces the file of that name
WriteFile(fs, name) == fs \cup {name}

\* os.remove(f)
RemoveFile(fs, name) == fs \ {name}

\* Variant of BarrierReleased: the barrier does not block
BarrierReleased_NoWait(p) == TRUE

\* Variant of BarrierReleased: the barrier waits only for the processes still alive
BarrierReleased_LiveOnly(p) ==
  \A q \in Procs : pc[q] = "failed" \/ barriers[q] >= barriers[p]

\* ddp.barrier() returns to p once every process of the group has made as many
\* barrier calls as p has
BarrierReleased(p) == \A q \in Procs : barriers[q] >= barriers[p]

\* The exception of p propagates out of trainer.fit: the process ends
Raise(p) == pc' = [pc EXCEPT ![p] = "failed"]

\* Line 284: int(world_size/num_gpus), the quotient truncated (both are positive)
NumNodes(ws, gpus) == ws \div gpus

\* The validation batches the sanity check runs: num_sanity_val_steps, or all of
\* them when the validation set has fewer batches
SanitySteps == IF NumSanityValSteps < NumValBatches THEN NumSanityValSteps
                                                    ELSE NumValBatches

\* Variant of ValidationNoise: validation_step draws a sample of its own
ValidationNoise_Drawn(p) == randn_calls[p] + 1

\* Line 207: z = self.validation_z.type_as(imgs)
ValidationNoise(p) == validation_z[p]

\* ---------------------------------------------------------------- initial state
\* The positions of the processes when trainer.fit begins: the trainer starts with
\* its sanity check, that is with the first validation batch
FitPc(ws) == [p \in Ranks |-> IF p < ws THEN "validation_step" ELSE "absent"]

\* Nothing is trained, no barrier is called, the directories hold no files
Untrained ==
  /\ current_epoch = [p \in Ranks |-> 0]
  /\ batch_idx = [p \in Ranks |-> 0]
  /\ optimizer_idx = [p \in Ranks |-> 0]
  /\ generator = [p \in Ranks |-> 0]
  /\ discriminator = [p \in Ranks |-> 0]
  /\ g_loss_disc = [p \in Ranks |-> 0]
  /\ barriers = [p \in Ranks |-> 0]
  /\ img = [p \in Ranks |-> 0]
  /\ score = [p \in Ranks |-> << >>]
  /\ files = [p \in Ranks |-> {}]
  /\ written = [d \in Paths |-> {}]
  /\ dir_files = [d \in Paths |-> {}]
  /\ z = [p \in Ranks |-> 0]
  /\ clock = 0

\* The run on one node, at the call of trainer.fit: every process of the run has
\* one accelerator of the node, lines 282-295 have run, line 145 has drawn
\* validation_z (the first torch.randn call of the process)
Init ==
  /\ world_size \in 1 .. MaxWorld
  /\ num_gpus = world_size
  /\ num_nodes = NumNodes(world_size, num_gpus)
  /\ main_pc = "fit"
  /\ pc = FitPc(world_size)
  /\ sanity_checking = [p \in Ranks |-> TRUE]
  /\ randn_calls = [p \in Ranks |-> 1]
  /\ validation_z = [p \in Ranks |-> 1]
  /\ dir_exists \in [Paths -> BOOLEAN]
  /\ Untrained

\* The start of the script, before line 282, for any values of the two
\* environment variables
MainInit ==
  /\ world_size \in 1 .. MaxEnv
  /\ num_gpus \in 0 .. MaxEnv
  /\ num_nodes = 0
  /\ main_pc = "main"
  /\ pc = [p \in Ranks |-> "absent"]
  /\ sanity_checking = [p \in Ranks |-> FALSE]
  /\ randn_calls = [p \in Ranks |-> 0]
  /\ validation_z = [p \in Ranks |-> 0]
  /\ dir_exists = [d \in Paths |-> FALSE]
  /\ Untrained

\* ---------------------------------------------------------------- __main__

\* Lines 282-296 with SM_NUM_GPUS > 0: the node count is computed, the model and
\* the trainer are built and trainer.fit is called
Main ==
  /\ main_pc = "main"
  /\ num_gpus > 0
  /\ num_nodes' = NumNodes(world_size, num_gpus)
  /\ main_pc' = "fit"
  /\ pc' = FitPc(world_size)
  /\ sanity_checking' = [p \in Ranks |-> TRUE]
  /\ randn_calls' = [p \in Ranks |-> 1]
  /\ validation_z' = [p \in Ranks |-> 1]
  /\ UNCHANGED << world_size, num_gpus, z, current_epoch, batch_idx, optimizer_idx,
                  generator, discriminator, g_loss_disc, barriers, img, score, files,
                  written, dir_exists, dir_files, clock >>

\* Line 284 with SM_NUM_GPUS = 0: the division raises ZeroDivisionError
MainRaises ==
  /\ main_pc = "main"
  /\ num_gpus = 0
  /\ main_pc' = "failed"
  /\ UNCHANGED << world_size, num_gpus, num_nodes, sanity_checking, validation_z, z,
                  randn_calls, pc, current_epoch, batch_idx, optimizer_idx,
                  generator, discriminator, g_loss_disc, barriers, img, score, files,
                  written, dir_exists, dir_files, clock >>

\* ---------------------------------------------------------------- training

\* GAN.training_step(batch, batch_idx, optimizer_idx) and the optimizer step the
\* trainer applies to its result; then the trainer moves to the next optimizer,
\* the next batch, or the validation loop of the epoch.
TrainingStep(p) ==
  /\ pc[p] = "training_step"
  /\ LET phase  == PhaseOf(optimizer_idx[p])
         target == OptimizerParams(ConfigureOptimizers[optimizer_idx[p] + 1])
         last   == optimizer_idx[p] + 1 = Len(ConfigureOptimizers)
     IN /\ randn_calls' = [randn_calls EXCEPT ![p] = @ + 1]
        /\ z' = [z EXCEPT ![p] = randn_calls[p] + 1]
        /\ g_loss_disc' = [g_loss_disc EXCEPT ![p] =
                             IF phase = "generator" THEN discriminator[p] ELSE @]
        /\ generator' = [generator EXCEPT ![p] =
                             IF target = "generator" THEN @ + 1 ELSE @]
        /\ discriminator' = [discriminator EXCEPT ![p] =
                             IF target = "discriminator" THEN @ + 1 ELSE @]
        /\ optimizer_idx' = [optimizer_idx EXCEPT ![p] = IF last THEN 0 ELSE @ + 1]
        /\ batch_idx' = [batch_idx EXCEPT ![p] =
                             IF ~last THEN @
                             ELSE IF @ + 1 < NumTrainBatches THEN @ + 1 ELSE 0]
        /\ pc' = [pc EXCEPT ![p] =
                             IF last /\ batch_idx[p] + 1 >= NumTrainBatches
                             THEN "validation_step" ELSE @]
  /\ UNCHANGED << world_size, num_gpus, num_nodes, main_pc, sanity_checking,
                  validation_z, current_epoch, barriers, img, score, files, written,
                  dir_exists, dir_files, clock >>

\* A process raises during the discriminator phase of a training step.
DiscriminatorPhaseRaises(p) ==
  /\ pc[p] = "training_step"
  /\ PhaseOf(optimizer_idx[p]) = "discriminator"
  /\ Raise(p)
  /\ UNCHANGED << world_size, num_gpus, num_nodes, main_pc, sanity_checking,
                  validation_z, z, randn_calls, current_epoch, batch_idx, optimizer_idx, generator,
                  discriminator, g_loss_disc, barriers, img, score, files, written,
                  dir_exists, dir_files, clock >>

\* ---------------------------------------------------------------- validation_step

\* Variant of ValidationStep: the directory test and creation are not guarded by
\* is_global_zero
ValidationStep_Unguarded(p) ==
  /\ pc[p] = "validation_step"
  /\ z' = [z EXCEPT ![p] = ValidationNoise(p)]
  /\ pc' = [pc EXCEPT ![p] =
              IF ~dir_exists[gen_images_path] THEN "mkdir_gen" ELSE "exists_src"]
  /\ UNCHANGED << world_size, num_gpus, num_nodes, main_pc, sanity_checking,
                  validation_z, randn_calls, current_epoch, batch_idx, optimizer_idx, generator,
                  discriminator, g_loss_disc, barriers, img, score, files, written,
                  dir_exists, dir_files, clock >>

\* Lines 205-219: the images are generated; rank 0 tests os.path.exists(gen_images_path)
ValidationStep(p) ==
  /\ pc[p] = "validation_step"
  /\ z' = [z EXCEPT ![p] = ValidationNoise(p)]
  /\ pc' = [pc EXCEPT ![p] =
              IF ~IsGlobalZero(p) THEN "barrier_225"
              ELSE IF ~dir_exists[gen_images_path] THEN "mkdir_gen" ELSE "exists_src"]
  /\ UNCHANGED << world_size, num_gpus, num_nodes, main_pc, sanity_checking,
                  validation_z, randn_calls, current_epoch, batch_idx, optimizer_idx, generator,
                  discriminator, g_loss_disc, barriers, img, score, files, written,
                  dir_exists, dir_files, clock >>

\* os.mkdir(d): FileExistsError when d exists
Mkdir(p, at, d, next) ==
  /\ pc[p] = at
  /\ IF dir_exists[d]
     THEN Raise(p) /\ UNCHANGED dir_exists
     ELSE /\ dir_exists' = [dir_exists EXCEPT ![d] = TRUE]
          /\ pc' = [pc EXCEPT ![p] = next]
  /\ UNCHANGED << world_size, num_gpus, num_nodes, main_pc, sanity_checking,
                  validation_z, z, randn_calls, current_epoch, batch_idx, optimizer_idx, generator,
                  discriminator, g_loss_disc, barriers, img, score, files, written,
                  dir_files, clock >>

\* Line 220
MkdirGen(p) == Mkdir(p, "mkdir_gen", gen_images_path, "exists_src")

\* Line 222
ExistsSrc(p) ==
  /\ pc[p] = "exists_src"
  /\ pc' = [pc EXCEPT ![p] =
              IF ~dir_exists[src_images_path] THEN "mkdir_src" ELSE "barrier_225"]
  /\ UNCHANGED << world_size, num_gpus, num_nodes, main_pc, sanity_checking,
                  validation_z, z, randn_calls, current_epoch, batch_idx, optimizer_idx, generator,
                  discriminator, g_loss_disc, barriers, img, score, files, written,
                  dir_exists, dir_files, clock >>

\* Line 223
MkdirSrc(p) == Mkdir(p, "mkdir_src", src_images_path, "barrier_225")

\* ddp.barrier(): the call
BarrierCall(p, at, wait) ==
  /\ pc[p] = at
  /\ barriers' = [barriers EXCEPT ![p] = @ + 1]
  /\ pc' = [pc EXCEPT ![p] = wait]
  /\ UNCHANGED << world_size, num_gpus, num_nodes, main_pc, sanity_checking,
                  validation_z, z, randn_calls, current_epoch, batch_idx, optimizer_idx, generator,
                  discriminator, g_loss_disc, img, score, files, written,
                  dir_exists, dir_files, clock >>

\* Variant of Barrier225: the barrier call sits inside the is_global_zero branch of
\* lines 218-223, the other ranks go on without calling it
Barrier225_InsideBranch(p) ==
  IF p = 0
  THEN BarrierCall(p, "barrier_225", "wait_225")
  ELSE /\ pc[p] = "barrier_225"
       /\ pc' = [pc EXCEPT ![p] = "wait_225"]
       /\ UNCHANGED << world_size, num_gpus, num_nodes, main_pc, sanity_checking,
                  validation_z, z, randn_calls, current_epoch, batch_idx, optimizer_idx,
                  generator, discriminator, g_loss_disc, barriers, img, score, files,
                  written, dir_exists, dir_files, clock >>

\* Line 225: ddp.barrier() of validation_step, called by every rank
Barrier225(p) == BarrierCall(p, "barrier_225", "wait_225")

\* Line 225: the barrier returns; the first save loop starts
Barrier225Returns(p) ==
  /\ pc[p] = "wait_225"
  /\ BarrierReleased(p)
  /\ pc' = [pc EXCEPT ![p] = "save_gen"]
  /\ UNCHANGED << world_size, num_gpus, num_nodes, main_pc, sanity_checking,
                  validation_z, z, randn_calls, current_epoch, batch_idx, optimizer_idx, generator,
                  discriminator, g_loss_disc, barriers, img, score, files, written,
                  dir_exists, dir_files, clock >>

\* One iteration of a save loop: save_image(img, d + prefix + str(time.time()) + ".jpeg").
\* The directories are under /tmp, so the processes that share them run on one host
\* and read one system clock: a reading is no smaller than the last one returned,
\* and may equal it (the float has a resolution of about 2.4e-7 s at today's epoch
\* values, and the clock source may be coarser).
SaveImage(p, at, d, prefix, next) ==
  /\ pc[p] = at
  /\ \E t \in clock .. MaxClock :
       /\ clock' = t
       /\ IF ~dir_exists[d]
          THEN Raise(p) /\ UNCHANGED << dir_files, img, written >>
          ELSE /\ dir_files' = [dir_files EXCEPT ![d] =
                                  WriteFile(@, FileName(prefix, t))]
               /\ written' = [written EXCEPT ![d] = @ \cup {FileName(prefix, t)}]
               /\ img' = [img EXCEPT ![p] = IF @ + 1 < NumImages THEN @ + 1 ELSE 0]
               /\ pc' = [pc EXCEPT ![p] = IF img[p] + 1 < NumImages THEN @ ELSE next]
  /\ UNCHANGED << world_size, num_gpus, num_nodes, main_pc, sanity_checking,
                  validation_z, z, randn_calls, current_epoch, batch_idx, optimizer_idx, generator,
                  discriminator, g_loss_disc, barriers, score, files, dir_exists >>

\* Lines 226-227
SaveGen(p) == SaveImage(p, "save_gen", gen_images_path, "gen_", "save_src")

\* Lines 228-229, then line 231: validation_step returns
SaveSrc(p) == SaveImage(p, "save_src", src_images_path, "src_", "validation_step_end")

\* ---------------------------------------------------------------- validation_step_end

\* Variant of ValidationStepEnd: rank 0 clears the directories before it scores
ValidationStepEnd_ClearFirst(p) ==
  /\ pc[p] = "validation_step_end"
  /\ pc' = [pc EXCEPT ![p] = IF p = 0 THEN "glob_gen" ELSE "barrier_251"]
  /\ UNCHANGED << world_size, num_gpus, num_nodes, main_pc, sanity_checking,
                  validation_z, z, randn_calls, current_epoch, batch_idx, optimizer_idx,
                  generator, discriminator, g_loss_disc, barriers, img, score, files,
                  written, dir_exists, dir_files, clock >>

\* Variant of ValidationStepEnd: the branch of line 237 is taken by every rank
ValidationStepEnd_EveryRank(p) ==
  /\ pc[p] = "validation_step_end"
  /\ pc' = [pc EXCEPT ![p] = "compute_fid"]
  /\ UNCHANGED << world_size, num_gpus, num_nodes, main_pc, sanity_checking,
                  validation_z, z, randn_calls, current_epoch, batch_idx, optimizer_idx,
                  generator, discriminator, g_loss_disc, barriers, img, score, files,
                  written, dir_exists, dir_files, clock >>

\* Lines 235-237: "if self.trainer.is_global_zero"; the other ranks go to line 251
ValidationStepEnd(p) ==
  /\ pc[p] = "validation_step_end"
  /\ pc' = [pc EXCEPT ![p] = IF IsGlobalZero(p) THEN "compute_fid" ELSE "barrier_251"]
  /\ UNCHANGED << world_size, num_gpus, num_nodes, main_pc, sanity_checking,
                  validation_z, z, randn_calls, current_epoch, batch_idx, optimizer_idx, generator,
                  discriminator, g_loss_disc, barriers, img, score, files, written,
                  dir_exists, dir_files, clock >>

\* Line 241: fid.compute_fid(gen_images_path, src_images_path) reads the first folder
ComputeFidGen(p) ==
  /\ pc[p] = "compute_fid"
  /\ score' = [score EXCEPT ![p] = << dir_files[gen_images_path] >>]
  /\ pc' = [pc EXCEPT ![p] = "compute_fid_src"]
  /\ UNCHANGED << world_size, num_gpus, num_nodes, main_pc, sanity_checking,
                  validation_z, z, randn_calls, current_epoch, batch_idx, optimizer_idx, generator,
                  discriminator, g_loss_disc, barriers, img, files, written,
                  dir_exists, dir_files, clock >>

\* Line 241: ... then the second folder, and returns the score
ComputeFidSrc(p) ==
  /\ pc[p] = "compute_fid_src"
  /\ score' = [score EXCEPT ![p] = Append(@, dir_files[src_images_path])]
  /\ pc' = [pc EXCEPT ![p] = "print_score"]
  /\ UNCHANGED << world_size, num_gpus, num_nodes, main_pc, sanity_checking,
                  validation_z, z, randn_calls, current_epoch, batch_idx, optimizer_idx, generator,
                  discriminator, g_loss_disc, barriers, img, files, written,
                  dir_exists, dir_files, clock >>

\* Line 243: print(... self.epoch ...), the attribute resolves; the score is printed
\* and not used again
PrintScore(p) ==
  /\ pc[p] = "print_score"
  /\ score' = [score EXCEPT ![p] = << >>]
  /\ pc' = [pc EXCEPT ![p] = "glob_gen"]
  /\ UNCHANGED << world_size, num_gpus, num_nodes, main_pc, sanity_checking,
                  validation_z, z, randn_calls, current_epoch, batch_idx, optimizer_idx, generator,
                  discriminator, g_loss_disc, barriers, img, files, written,
                  dir_exists, dir_files, clock >>

\* Line 243: self.epoch is assigned nowhere in the program; when the base class
\* does not supply it either, reading it raises AttributeError
PrintScoreRaises(p) ==
  /\ pc[p] = "print_score"
  /\ Raise(p)
  /\ UNCHANGED << world_size, num_gpus, num_nodes, main_pc, sanity_checking,
                  validation_z, z, randn_calls, current_epoch, batch_idx, optimizer_idx, generator,
                  discriminator, g_loss_disc, barriers, img, score, files, written,
                  dir_exists, dir_files, clock >>

\* files = glob.glob(d + "/*"); an empty list skips the loop
Glob(p, at, d, loop, next) ==
  /\ pc[p] = at
  /\ files' = [files EXCEPT ![p] = dir_files[d]]
  /\ pc' = [pc EXCEPT ![p] = IF dir_files[d] = {} THEN next ELSE loop]
  /\ UNCHANGED << world_size, num_gpus, num_nodes, main_pc, sanity_checking,
                  validation_z, z, randn_calls, current_epoch, batch_idx, optimizer_idx, generator,
                  discriminator, g_loss_disc, barriers, img, score, written,
                  dir_exists, dir_files, clock >>

\* One iteration of "for f in files: os.remove(f)"; FileNotFoundError when f is gone
Remove(p, at, d, next) ==
  /\ pc[p] = at
  /\ \E f \in files[p] :
       IF f \notin dir_files[d]
       THEN Raise(p) /\ UNCHANGED << dir_files, files >>
       ELSE /\ dir_files' = [dir_files EXCEPT ![d] = RemoveFile(@, f)]
            /\ files' = [files EXCEPT ![p] = @ \ {f}]
            /\ pc' = [pc EXCEPT ![p] = IF files[p] = {f} THEN next ELSE @]
  /\ UNCHANGED << world_size, num_gpus, num_nodes, main_pc, sanity_checking,
                  validation_z, z, randn_calls, current_epoch, batch_idx, optimizer_idx, generator,
                  discriminator, g_loss_disc, barriers, img, score, written,
                  dir_exists, clock >>

\* Line 245
GlobGen(p) == Glob(p, "glob_gen", gen_images_path, "remove_gen", "glob_src")

\* Lines 246-247
RemoveGen(p) == Remove(p, "remove_gen", gen_images_path, "glob_src")

\* Line 248
GlobSrc(p) == Glob(p, "glob_src", src_images_path, "remove_src", "barrier_251")

\* Lines 249-250
RemoveSrc(p) == Remove(p, "remove_src", src_images_path, "barrier_251")

\* Variant of Barrier251: the barrier call sits inside the is_global_zero branch,
\* the other ranks go on without calling it
Barrier251_InsideBranch(p) ==
  IF p = 0
  THEN BarrierCall(p, "barrier_251", "wait_251")
  ELSE /\ pc[p] = "barrier_251"
       /\ pc' = [pc EXCEPT ![p] = "wait_251"]
       /\ UNCHANGED << world_size, num_gpus, num_nodes, main_pc, sanity_checking,
                  validation_z, z, randn_calls, current_epoch, batch_idx, optimizer_idx, generator,
                       discriminator, g_loss_disc, barriers, img, score, files, written,
                       dir_exists, dir_files, clock >>

\* Line 251: ddp.barrier() of validation_step_end, called by every rank
Barrier251(p) == BarrierCall(p, "barrier_251", "wait_251")

\* Lines 251-252: the barrier returns and validation_step_end returns; the trainer
\* runs the next validation batch; after the last one of the sanity check it
\* starts epoch 0, after the last one of an epoch the next epoch, or it ends
\* after max_epochs
Barrier251Returns(p) ==
  /\ pc[p] = "wait_251"
  /\ BarrierReleased(p)
  /\ LET lastBatch == batch_idx[p] + 1 >=
                         (IF sanity_checking[p] THEN SanitySteps ELSE NumValBatches)
         lastEpoch == ~sanity_checking[p] /\ current_epoch[p] + 1 >= MaxEpochs
     IN /\ batch_idx' = [batch_idx EXCEPT ![p] = IF lastBatch THEN 0 ELSE @ + 1]
        /\ current_epoch' = [current_epoch EXCEPT ![p] =
                               IF lastBatch /\ ~sanity_checking[p] THEN @ + 1 ELSE @]
        /\ sanity_checking' = [sanity_checking EXCEPT ![p] = @ /\ ~lastBatch]
        /\ written' = IF lastBatch THEN [d \in Paths |-> {}] ELSE written
        /\ pc' = [pc EXCEPT ![p] =
                    IF ~lastBatch THEN "validation_step"
                    ELSE IF lastEpoch THEN "done" ELSE "training_step"]
  /\ score' = [score EXCEPT ![p] = << >>]
  /\ files' = [files EXCEPT ![p] = {}]
  /\ UNCHANGED << world_size, num_gpus, num_nodes, main_pc,
                  validation_z, z, randn_calls, optimizer_idx, generator, discriminator, g_loss_disc,
                  barriers, img, dir_exists, dir_files, clock >>

\* ---------------------------------------------------------------- specification

\* The steps of the program of process p
Proceed(p) ==
  \/ TrainingStep(p)
  \/ ValidationStep(p)
  \/ MkdirGen(p)
  \/ ExistsSrc(p)
  \/ MkdirSrc(p)
  \/ Barrier225(p)
  \/ Barrier225Returns(p)
  \/ SaveGen(p)
  \/ SaveSrc(p)
  \/ ValidationStepEnd(p)
  \/ ComputeFidGen(p)
  \/ ComputeFidSrc(p)
  \/ PrintScore(p)
  \/ GlobGen(p)
  \/ RemoveGen(p)
  \/ GlobSrc(p)
  \/ RemoveSrc(p)
  \/ Barrier251(p)
  \/ Barrier251Returns(p)

Next ==
  \/ \E p \in Procs : TrainingStep(p)
  \/ \E p \in Procs : ValidationStep(p)
  \/ \E p \in Procs : MkdirGen(p)
  \/ \E p \in Procs : ExistsSrc(p)
  \/ \E p \in Procs : MkdirSrc(p)
  \/ \E p \in Procs : Barrier225(p)
  \/ \E p \in Procs : Barrier225Returns(p)
  \/ \E p \in Procs : SaveGen(p)
  \/ \E p \in Procs : SaveSrc(p)
  \/ \E p \in Procs : ValidationStepEnd(p)
  \/ \E p \in Procs : ComputeFidGen(p)
  \/ \E p \in Procs : ComputeFidSrc(p)
  \/ \E p \in Procs : PrintScore(p)
  \/ \E p \in Procs : GlobGen(p)
  \/ \E p \in Procs : RemoveGen(p)
  \/ \E p \in Procs : GlobSrc(p)
  \/ \E p \in Procs : RemoveSrc(p)
  \/ \E p \in Procs : Barrier251(p)
  \/ \E p \in Procs : Barrier251Returns(p)
  \/ \E p \in Procs : DiscriminatorPhaseRaises(p)
  \/ \E p \in Procs : PrintScoreRaises(p)

Spec == Init /\ [][Next]_vars

\* Every process that can take a step of its program eventually takes one (each
\* rank is an operating-system process of its own); failures are never forced.
FairSpec == Spec /\ \A p \in Ranks : WF_vars(Proceed(p))

\* The start of the script alone, from any environment
MainNext ==
  \/ Main
  \/ MainRaises

MainSpec == MainInit /\ [][MainNext]_vars

\* ---------------------------------------------------------------- positions

\* Positions of validation_step after ddp.barrier() (line 225) has returned
SaveStates == { "save_gen", "save_src" }

\* Positions at which the save loops of validation_step are complete
DepositedStates == { "validation_step_end", "compute_fid", "compute_fid_src",
                     "print_score", "glob_gen", "remove_gen", "glob_src",
                     "remove_src", "barrier_251", "wait_251" }

\* Positions of the coordinator after fid.compute_fid has begun to read
ScoringStates == { "compute_fid_src", "print_score" }

\* Positions of the coordinator between the first glob and the last os.remove
ClearingStates == { "glob_gen", "remove_gen", "glob_src", "remove_src" }

\* Positions from the end of one evaluation step to the first save of the next
BetweenStepsStates == { "training_step", "validation_step", "mkdir_gen", "exists_src",
                        "mkdir_src", "barrier_225", "wait_225", "done" }

\* Positions inside validation_step and validation_step_end
EvalStates == { "validation_step", "mkdir_gen", "exists_src", "mkdir_src",
                "barrier_225", "wait_225" } \cup SaveStates \cup DepositedStates

\* The first evaluation step of epoch e, counting from the start of the run
FirstEvalStep(e) == SanitySteps + e * NumValBatches

\* The evaluation step a process in validation_step / validation_step_end is running
EvalStep(p) ==
  IF sanity_checking[p] THEN batch_idx[p]
                        ELSE FirstEvalStep(current_epoch[p]) + batch_idx[p]

Failed == { p \in Procs : pc[p] = "failed" }

\* ---------------------------------------------------------------- claims

\* C1: in every evaluation step, rank 0 does not begin reading the exchange
\* directories for scoring until every process has completed both save loops of
\* that step.
C1_ScoringAfterAllDeposits ==
  \A p \in Procs :
    pc[0] \in ScoringStates =>
      /\ pc[p] \in DepositedStates
      /\ EvalStep(p) = EvalStep(0)

\* C2: whenever a process has passed the trailing barrier of validation_step_end
\* (and has not yet begun the save loops of its next step), both exchange
\* directories contain no files.
C2_EmptyAfterTrailingBarrier ==
  \A p \in Procs :
    (barriers[p] >= 2 /\ pc[p] \in BetweenStepsStates) =>
      \A d \in Paths : dir_files[d] = {}

\* C3: within an epoch, no save_image uses a file name that an earlier save_image
\* of that epoch, by any process, used in the same directory.
C3_UniqueFileNames ==
  [][ \A p \in Procs :
        /\ (pc[p] = "save_gen" /\ pc'[p] # "failed" /\ << pc'[p], img'[p] >> # << pc[p], img[p] >>)
              => FileName("gen_", clock') \notin written[gen_images_path]
        /\ (pc[p] = "save_src" /\ pc'[p] # "failed" /\ << pc'[p], img'[p] >> # << pc[p], img[p] >>)
              => FileName("src_", clock') \notin written[src_images_path]
    ]_vars

\* C4: with world size N and k generated images deposited per process, the
\* generated-image files the coordinator scores are exactly N*k.
C4_AllGeneratedImagesScored ==
  (pc[0] \in ScoringStates /\ Failed = {}) =>
     Cardinality(score[0][1]) = world_size * NumImages

\* C5: with no process failing, every process that enters an evaluation step
\* eventually returns from validation_step_end of that step.
C5_EvaluationStepReturns ==
  \A p \in Ranks : \A k \in 0 .. FirstEvalStep(MaxEpochs) :
    (p \in Procs /\ pc[p] \in EvalStates /\ EvalStep(p) = k)
    ~> (EvalStep(p) > k \/ Failed # {})

\* Deadlock freedom as a state property: while no process has failed, either every
\* process has finished or some process can take a step of its program.
NoDeadlockWithoutFailure ==
  Failed = {} =>
    \/ \A p \in Procs : pc[p] = "done"
    \/ \E p \in Procs : ENABLED Proceed(p)

\* C5 witness: a process has returned from validation_step_end, nobody failed
C5_Witness ==
  \E p \in Procs : p # 0 /\ barriers[p] = 2 /\ pc[p] \notin { "wait_251", "failed" }
                         /\ Failed = {}

\* C6: while the coordinator is removing the files of step k, no process has
\* begun the save loops of a later step.
C6_ClearBeforeNextDeposit ==
  \A p \in Procs :
    (pc[0] \in ClearingStates /\ pc[p] \in (SaveStates \cup DepositedStates))
       => EvalStep(p) <= EvalStep(0)

\* C6 witness: the coordinator clears the second evaluation step while another
\* process has finished that step's deposits
C6_Witness ==
  \E p \in Procs : /\ p # 0
                   /\ pc[0] = "remove_src"
                   /\ EvalStep(0) = 1
                   /\ pc[p] = "wait_251"

\* C7: every step that removes a file from an exchange directory is a step of
\* rank 0.
C7_OnlyCoordinatorDeletes ==
  [][ (\E d \in Paths : ~(dir_files[d] \subseteq dir_files'[d]))
        => /\ pc[0] \in { "remove_gen", "remove_src" }
           /\ files'[0] # files[0]
           /\ \A p \in Procs \ {0} : pc'[p] = pc[p] /\ files'[p] = files[p]
    ]_vars

\* C7 witness: with several processes, the coordinator is in its removal loop and
\* has removed a generated file written in this epoch
C7_Witness ==
  /\ world_size > 1
  /\ pc[0] = "remove_gen"
  /\ \E f \in written[gen_images_path] :
        f \notin dir_files[gen_images_path] /\ f \notin files[0]

\* C8: only rank 0 tests for and creates the directories, it calls os.mkdir only
\* on an absent directory, and every process is in a save loop only when both
\* directories exist.
C8_DirectoriesExistBeforeDeposit ==
  \A p \in Procs :
    /\ pc[p] \in { "mkdir_gen", "exists_src", "mkdir_src" } => p = 0
    /\ pc[p] = "mkdir_gen" => ~dir_exists[gen_images_path]
    /\ pc[p] = "mkdir_src" => ~dir_exists[src_images_path]
    /\ pc[p] \in SaveStates => \A d \in Paths : dir_exists[d]

\* C8 witness: a non-coordinator is about to write its first artifact of the run
\* after the coordinator created a directory
C8_Witness ==
  \E p \in Procs : /\ p # 0
                   /\ pc[p] = "save_gen"
                   /\ barriers[p] = 1
                   /\ \A d \in Paths : dir_exists[d] /\ dir_files[d] = {}

\* C9: when a process has failed, no other process is past a barrier the failed
\* process never called; when it failed in a training step, no process is in the
\* save loops, the scoring or the clearing of the following evaluation step.
C9_FailureBlocksPeers ==
  \A q \in Failed : \A p \in Procs :
    /\ barriers[p] <= barriers[q] + 1
    /\ barriers[p] = barriers[q] + 1 => pc[p] \in { "wait_225", "wait_251" }
    /\ (barriers[q] % 2 = 0 /\ pc[p] \in (SaveStates \cup DepositedStates))
          => EvalStep(p) < FirstEvalStep(current_epoch[q])

\* C9 witness: a process failed in the discriminator phase and a peer waits at
\* the barrier of validation_step
C9_Witness ==
  \E q \in Failed : \E p \in Procs :
     /\ barriers[q] % 2 = 0
     /\ pc[p] = "wait_225"
     /\ barriers[p] = barriers[q] + 1

\* C10: on every process the n-th generator update precedes the n-th
\* discriminator update, and the generator loss behind the n-th generator update
\* read the discriminator after exactly n-1 updates.
C10_GeneratorBeforeDiscriminator ==
  \A p \in Procs :
    /\ discriminator[p] <= generator[p]
    /\ generator[p] <= discriminator[p] + 1
    /\ generator[p] > 0 => g_loss_disc[p] = generator[p] - 1

\* C10 witness: a process has completed both phases of a batch
C10_Witness ==
  \E p \in Procs : generator[p] = 1 /\ discriminator[p] = 1 /\ pc[p] = "validation_step"

\* C11: in every epoch the score is computed once, by rank 0 only, and over every
\* file deposited in that epoch: only rank 0 is ever in fid.compute_fid, and when
\* rank 0 has a score during an epoch, every process has completed the save loops
\* of the last validation batch of that epoch and the two listings scored are all
\* the names written during the epoch.
C11_ScoreOncePerEpoch ==
  /\ \A p \in Procs :
       pc[p] \in { "compute_fid", "compute_fid_src", "print_score" } => p = 0
  /\ (pc[0] = "print_score" /\ ~sanity_checking[0]) =>
       /\ \A p \in Procs : /\ pc[p] \in DepositedStates
                           /\ current_epoch[p] = current_epoch[0]
                           /\ ~sanity_checking[p]
                           /\ batch_idx[p] + 1 = NumValBatches
       /\ score[0] = << written[gen_images_path], written[src_images_path] >>

\* C12: with one process, when fid.compute_fid is about to read, each directory
\* holds exactly as many files as images were saved into it in this step, and once
\* the clear is complete each directory holds none.
C12_SingleProcessFileCounts ==
  world_size = 1 =>
    /\ pc[0] = "compute_fid" =>
         \A d \in Paths : Cardinality(dir_files[d]) = NumImages
    /\ pc[0] \in { "barrier_251", "wait_251" } =>
         \A d \in Paths : dir_files[d] = {}

\* C13: on every process the run is {train an epoch, evaluate it}* and then done:
\* a process is inside validation_step / validation_step_end of epoch e only when
\* all training batches of epochs 0..e have been applied (so never before the
\* first training epoch), it is in a training step of epoch e only between the
\* evaluation of epoch e-1 and that of epoch e, and it is done exactly when
\* MaxEpochs epochs have run.
C13_TrainThenEvaluate ==
  \A p \in Procs :
    /\ pc[p] \in EvalStates =>
         /\ generator[p] = (current_epoch[p] + 1) * NumTrainBatches
         /\ discriminator[p] = (current_epoch[p] + 1) * NumTrainBatches
    /\ pc[p] = "training_step" =>
         barriers[p] = 2 * current_epoch[p] * NumValBatches
    /\ current_epoch[p] <= MaxEpochs
    /\ pc[p] = "done" <=> current_epoch[p] = MaxEpochs

\* C14: the script goes on to trainer.fit only when WORLD_SIZE is an exact multiple
\* of SM_NUM_GPUS, and then with num_nodes the exact quotient; otherwise it stops
\* with an error.
C14_NodeCountDivides ==
  main_pc = "fit" =>
    /\ num_gpus > 0
    /\ world_size % num_gpus = 0
    /\ num_nodes * num_gpus = world_size

\* C15: in every evaluation step the scoring read is complete before the clear
\* begins: a process starts the clear (the glob of line 245) only from the print of
\* a score whose two directory listings have both been read, and every step that
\* removes a file is taken while no process is inside fid.compute_fid.
C15_ScoringBeforeClearing ==
  [][ \A p \in Procs :
        /\ (pc'[p] \in ClearingStates /\ pc[p] \notin ClearingStates)
              => pc[p] = "print_score" /\ Len(score[p]) = 2
        /\ (\E d \in Paths : ~(dir_files[d] \subseteq dir_files'[d]))
              => pc[p] \notin { "compute_fid", "compute_fid_src" }
    ]_vars

\* C15 witness: the coordinator, past its scoring, has removed one reference file
\* of this epoch and has more to remove
C15_Witness ==
  /\ pc[0] = "remove_src"
  /\ score[0] = << >>
  /\ files[0] # {}
  /\ \E f \in written[src_images_path] : f \notin dir_files[src_images_path]

\* C16: each parameter set is changed only by its own optimizer inside a training
\* step: a generator-phase step leaves the discriminator as it is, a
\* discriminator-phase step leaves the generator as it is, and no step of
\* validation_step / validation_step_end (nor any step outside training_step)
\* changes either.
C16_ParametersChangedByOwnOptimizer ==
  [][ \A p \in Procs :
        /\ (pc[p] = "training_step" /\ PhaseOf(optimizer_idx[p]) = "generator")
              => discriminator'[p] = discriminator[p]
        /\ (pc[p] = "training_step" /\ PhaseOf(optimizer_idx[p]) = "discriminator")
              => generator'[p] = generator[p]
        /\ pc[p] \in EvalStates
              => generator'[p] = generator[p] /\ discriminator'[p] = discriminator[p]
        /\ generator'[p] # generator[p] => pc[p] = "training_step"
        /\ discriminator'[p] # discriminator[p] => pc[p] = "training_step"
    ]_vars

\* C16 witness: a process has applied the generator update of a batch and not yet
\* the discriminator update
C16_Witness ==
  \E p \in Procs : /\ pc[p] = "training_step"
                   /\ PhaseOf(optimizer_idx[p]) = "discriminator"
                   /\ generator[p] = discriminator[p] + 1

\* C17, as claimed: every training step and every evaluation step draws a sample
\* of its own: the step makes a torch.randn call and uses the sample of that call,
\* which is not the sample stored on the model.
C17_FreshNoiseEveryStep ==
  [][ \A p \in Procs :
        (\/ (pc[p] = "training_step" /\ optimizer_idx'[p] # optimizer_idx[p])
         \/ (pc[p] = "validation_step" /\ pc'[p] \notin { "validation_step", "failed" }))
          => /\ randn_calls'[p] = randn_calls[p] + 1
             /\ z'[p] = randn_calls'[p]
             /\ z'[p] # validation_z[p]
    ]_vars

\* C17, amended: every training step draws a sample of its own (a new torch.randn
\* call, never the stored sample); every evaluation step draws nothing and uses
\* validation_z, the one sample __init__ stored on the model, which never changes.
C17_TrainingNoiseFreshValidationNoiseStored ==
  [][ \A p \in Procs :
        /\ (pc[p] = "training_step" /\ optimizer_idx'[p] # optimizer_idx[p])
              => /\ randn_calls'[p] = randn_calls[p] + 1
                 /\ z'[p] = randn_calls'[p]
                 /\ z'[p] # validation_z[p]
        /\ (pc[p] = "validation_step" /\ pc'[p] \notin { "validation_step", "failed" })
              => /\ randn_calls'[p] = randn_calls[p]
                 /\ z'[p] = validation_z[p]
        /\ validation_z'[p] = validation_z[p]
    ]_vars

\* C17 witness: after training steps with samples of their own, a process is in an
\* evaluation step of an epoch with the stored sample, as in the sanity check
C17_Witness ==
  \E p \in Procs : /\ pc[p] = "save_gen"
                   /\ ~sanity_checking[p]
                   /\ randn_calls[p] > 2
                   /\ z[p] = validation_z[p]

\* C18: barrier calls are matched by call site: on every process the barrier call
\* number 2k+1 is the call of validation_step (line 225) in evaluation step k and
\* the call number 2k+2 is the call of validation_step_end (line 251) in step k,
\* and a process past the barrier of line 225 has been joined there by every other
\* process.
C18_BarriersMatchedByCallSite ==
  \A p \in Procs :
    /\ pc[p] \in { "validation_step", "mkdir_gen", "exists_src", "mkdir_src",
                   "barrier_225" }
          => barriers[p] = 2 * EvalStep(p)
    /\ pc[p] \in ({ "wait_225" } \cup SaveStates \cup (DepositedStates \ { "wait_251" }))
          => barriers[p] = 2 * EvalStep(p) + 1
    /\ pc[p] = "wait_251" => barriers[p] = 2 * EvalStep(p) + 2
    /\ pc[p] \in { "training_step", "done" }
          => barriers[p] = 2 * FirstEvalStep(current_epoch[p])
    /\ pc[p] \in (SaveStates \cup (DepositedStates \ { "wait_251" }))
          => \A q \in Procs : barriers[q] >= barriers[p]

\* C18 witness: in the second evaluation step a process has been released from
\* the barrier of validation_step while rank 0 has not yet returned from it
C18_Witness ==
  \E p \in Procs : /\ p # 0
                   /\ pc[p] = "save_gen"
                   /\ EvalStep(p) = 1
                   /\ pc[0] = "wait_225"
                   /\ barriers[0] = 3

\* C19: every file in the coordinator's glob result that is still to be removed
\* exists in its directory, so os.remove never raises for a missing file.
C19_ListedFilesExistAtRemoval ==
  \A p \in Procs :
    /\ pc[p] = "remove_gen" => files[p] \subseteq dir_files[gen_images_path]
    /\ pc[p] = "remove_src" => files[p] \subseteq dir_files[src_images_path]

\* C19 witness: the coordinator is removing listed files while another process is
\* still saving into the directories
C19_Witness ==
  \E p \in Procs : /\ p # 0
                   /\ pc[p] \in SaveStates
                   /\ pc[0] \in { "remove_gen", "remove_src" }
                   /\ files[0] # {}

====
